---- MODULE Spec2Model ----
(***************************************************************************)
(* Model of hydro's template package: HydroTemplateObject.build_path       *)
(* (template/template_item.py) and HydroTemplateTree                       *)
(* (template/template_tree.py).                                            *)
(*                                                                         *)
(* A Python str is a sequence of one-character strings, so that the regex  *)
(* scan, str.format and os.path.join are computed character by character.  *)
(***************************************************************************)
EXTENDS Integers, Sequences, FiniteSets, TLC

VARIABLES
    template_path,     \* HydroTemplateTree._template_path ("None" or a file name)
    template_schema,   \* HydroTemplateTree._template_schema
    template_tree,     \* HydroTemplateTree._template_tree: key -> object (heap position)
    objects,           \* every HydroTemplateObject constructed so far, in creation order
    created,           \* history: for objects[i], the schema entry it was built from
    compiled,          \* history: the schema of the latest compile pass, and its number
    call               \* the last public call and its outcome

vars == <<template_path, template_schema, template_tree, objects, created, compiled, call>>

----------------------------------------------------------------------------
(* Bounds of the model *)

\* longest pattern of the exhaustively enumerated pattern set
MaxLen == 3
\* a load or compile is only started while the heap holds at most this many objects
MaxObjects == 5

----------------------------------------------------------------------------
(* Python values *)

Ok(p) == [status |-> "ok", path |-> p, visited |-> <<>>]
Err(e) == [status |-> e, path |-> <<>>, visited |-> <<>>]

\* an optional str argument (child_path): None, or a str
NoneArg == [some |-> FALSE, s |-> <<>>]
Some(str) == [some |-> TRUE, s |-> str]
\* Python truthiness of an optional str: None and '' are falsy
Truthy(arg) == arg.some /\ arg.s # <<>>

StrVal(str) == [t |-> "str", s |-> str, n |-> 0]
IntVal(i) == [t |-> "int", s |-> <<>>, n |-> i]

DigitChars == <<"0", "1", "2", "3", "4", "5", "6", "7", "8", "9">>
IsDigit(c) == \E d \in 1..10 : DigitChars[d] = c
DigitVal(c) == (CHOOSE d \in 1..10 : DigitChars[d] = c) - 1

\* str(n) of a non-negative int
RECURSIVE str_int(_)
str_int(n) ==
    IF n < 10 THEN <<DigitChars[n + 1]>>
    ELSE str_int(n \div 10) \o <<DigitChars[(n % 10) + 1]>>

\* int(s) of a string of digits ('' counts as 0: no width given)
RECURSIVE int_str(_)
int_str(s) ==
    IF s = <<>> THEN 0
    ELSE int_str(SubSeq(s, 1, Len(s) - 1)) * 10 + DigitVal(s[Len(s)])

Repeat(c, n) == [i \in 1..n |-> c]

\* first position >= i of s holding a character of set cs, Len(s)+1 when none
RECURSIVE Find(_, _, _)
Find(s, i, cs) ==
    IF i > Len(s) THEN Len(s) + 1
    ELSE IF s[i] \in cs THEN i
    ELSE Find(s, i + 1, cs)

----------------------------------------------------------------------------
(* os.path.join(a, b) on POSIX, two arguments *)

Sep == "/"

os_path_join(a, b) ==
    IF b # <<>> /\ b[1] = Sep THEN b
    ELSE IF a = <<>> \/ a[Len(a)] = Sep THEN a \o b
    ELSE a \o <<Sep>> \o b

----------------------------------------------------------------------------
(* re.findall(r'(?!{)[A-z]+(?=[}\:])', name)                               *)
(* The class [A-z] is the code points 65..122: the letters, and the six    *)
(* characters [ \ ] ^ _ ` between Z and a. Digits are not in it.           *)

AzChars == {"a", "b", "x", "y", "_"}
IsAz(c) == c \in AzChars

\* end (exclusive) of the run of [A-z] characters that starts at i
RECURSIVE RunEnd(_, _)
RunEnd(s, i) ==
    IF i > Len(s) \/ ~IsAz(s[i]) THEN i ELSE RunEnd(s, i + 1)

\* [A-z]+ is greedy and the lookahead admits only } and : which are not in
\* the class, so a match is a maximal run followed by } or : and a run that
\* fails at its end fails at every shorter end and every later start.
RECURSIVE findall(_, _)
findall(s, i) ==
    IF i > Len(s) THEN <<>>
    ELSE IF ~IsAz(s[i]) THEN findall(s, i + 1)
    ELSE LET j == RunEnd(s, i)
         IN IF j <= Len(s) /\ s[j] \in {"}", ":"}
            THEN <<SubSeq(s, i, j - 1)>> \o findall(s, j)
            ELSE findall(s, j)

requested_tokens(name) == findall(name, 1)

----------------------------------------------------------------------------
(* str.format with keyword arguments only: CPython's MarkupIterator_next, parse_field,       *)
(* get_field_object and the format spec of str and int, for strings over   *)
(* the characters of this model (no '!', '[', '.', no alignment, sign or   *)
(* type characters in a format spec).                                      *)

\* format(value, spec): '' is str(value); digits are [0][width]; str pads on
\* the right, int on the left; any other spec of the model's characters is
\* rejected with ValueError.
format_value(v, spec) ==
    LET text == IF v.t = "int" THEN str_int(v.n) ELSE v.s
    IN IF spec = <<>> THEN Ok(text)
       ELSE IF \E i \in 1..Len(spec) : ~IsDigit(spec[i]) THEN Err("ValueError")
       ELSE LET zero == spec[1] = "0"
                width == int_str(IF zero THEN Tail(spec) ELSE spec)
                pad == Repeat(IF zero THEN "0" ELSE " ",
                              IF width > Len(text) THEN width - Len(text) ELSE 0)
            IN Ok(IF v.t = "int" THEN pad \o text ELSE text \o pad)

\* position of the } that closes a format spec starting at i with `count`
\* braces open, 0 when the spec is never closed
RECURSIVE MatchClose(_, _, _)
MatchClose(s, i, count) ==
    IF i > Len(s) THEN 0
    ELSE IF s[i] = "{" THEN MatchClose(s, i + 1, count + 1)
    ELSE IF s[i] = "}" THEN (IF count = 1 THEN i ELSE MatchClose(s, i + 1, count - 1))
    ELSE MatchClose(s, i + 1, count)

\* the object a field name selects, with no positional arguments: an empty
\* or all-digit name is a positional index (IndexError), another name is a
\* keyword (KeyError when absent)
get_field_object(field_name, kwargs) ==
    IF \A i \in 1..Len(field_name) : IsDigit(field_name[i]) THEN "IndexError"
    ELSE IF field_name \notin DOMAIN kwargs THEN "KeyError"
    ELSE "ok"

RECURSIVE build_string(_, _, _)
build_string(s, kwargs, depth) ==
    IF depth <= 0 THEN Err("ValueError")
    ELSE LET b == Find(s, 1, {"{", "}"})
         IN IF b > Len(s) THEN Ok(s)
            ELSE IF s[b] = "}" /\ (b = Len(s) \/ s[b + 1] # "}") THEN Err("ValueError")
            ELSE IF b = Len(s) THEN Err("ValueError")
            ELSE IF s[b + 1] = s[b]
            THEN LET rest == build_string(SubSeq(s, b + 2, Len(s)), kwargs, depth)
                 IN IF rest.status = "ok"
                    THEN Ok(SubSeq(s, 1, b) \o rest.path)
                    ELSE rest
            ELSE LET e == Find(s, b + 1, {"{", "}", ":"})
                     field_name == SubSeq(s, b + 1, e - 1)
                     m == IF e <= Len(s) /\ s[e] = ":" THEN MatchClose(s, e + 1, 1) ELSE e
                     raw_spec == IF e < m THEN SubSeq(s, e + 1, m - 1) ELSE <<>>
                     got == get_field_object(field_name, kwargs)
                     spec == IF \E i \in 1..Len(raw_spec) : raw_spec[i] = "{"
                             THEN build_string(raw_spec, kwargs, depth - 1)
                             ELSE Ok(raw_spec)
                     field == IF got # "ok" THEN Err(got)
                              ELSE IF spec.status # "ok" THEN spec
                              ELSE format_value(kwargs[field_name], spec.path)
                     rest == build_string(SubSeq(s, m + 1, Len(s)), kwargs, depth)
                 IN IF e > Len(s) \/ s[e] = "{" \/ m = 0 THEN Err("ValueError")
                    ELSE IF field.status # "ok" THEN field
                    ELSE IF rest.status # "ok" THEN rest
                    ELSE Ok(SubSeq(s, 1, b - 1) \o field.path \o rest.path)

\* name.format of the tokens as keywords
str_format(name, kwargs) == build_string(name, kwargs, 2)

----------------------------------------------------------------------------
(* HydroTemplateObject (template_item.py) *)

\* HydroTemplateObject.__init__
HydroTemplateObject(name, preserve, parent_item) ==
    [name |-> name, preserve |-> preserve, parent_item |-> parent_item]

\* object_name with the preserve flag ignored: a preserved name is scanned
\* and formatted like any other
object_name_ignores_preserve(self, tokens) ==
    LET missing_tokens == SelectSeq(requested_tokens(self.name),
                                    LAMBDA token : token \notin DOMAIN tokens)
    IN IF Len(missing_tokens) > 0
       THEN Err("MissingTokens")
       ELSE str_format(self.name, tokens)

\* build_path, lines 43-76: the name this object contributes, or the error
\* raised while computing it
object_name(self, tokens) ==
    LET missing_tokens == SelectSeq(requested_tokens(self.name),
                                    LAMBDA token : token \notin DOMAIN tokens)
    IN IF ~self.preserve
       THEN IF Len(missing_tokens) > 0
            THEN Err("MissingTokens")
            ELSE str_format(self.name, tokens)
       ELSE Ok(self.name)

\* step_path joining whenever a child_path is given, the empty one included
step_path_joins_empty(name, child_path) ==
    IF child_path.some THEN os_path_join(name, child_path.s) ELSE name

\* build_path, lines 79-81: the path handed to the parent or returned
step_path(name, child_path) ==
    IF Truthy(child_path) THEN os_path_join(name, child_path.s) ELSE name

RECURSIVE build_path(_, _, _, _)

\* build_path checking the type of tokens only where tokens are used, that
\* is for objects that are not preserved
build_path_checks_type_late(objs, o, tokens, child_path) ==
    LET self == objs[o]
        name == object_name(self, tokens.map)
        path == step_path(name.path, child_path)
    IN IF ~self.preserve /\ ~tokens.isdict THEN [Err("TypeError") EXCEPT !.visited = <<o>>]
       ELSE IF name.status # "ok" THEN [name EXCEPT !.visited = <<o>>]
       ELSE IF self.parent_item # 0
       THEN LET up == build_path(objs, self.parent_item, tokens, Some(path))
            IN [up EXCEPT !.visited = <<o>> \o @]
       ELSE [Ok(path) EXCEPT !.visited = <<o>>]

\* build_path handing its own name to the parent, without the child_path
build_path_drops_child_path(objs, o, tokens, child_path) ==
    IF ~tokens.isdict THEN [Err("TypeError") EXCEPT !.visited = <<o>>]
    ELSE LET self == objs[o]
             name == object_name(self, tokens.map)
             path == step_path(name.path, child_path)
         IN IF name.status # "ok" THEN [name EXCEPT !.visited = <<o>>]
            ELSE IF self.parent_item # 0
            THEN LET up == build_path(objs, self.parent_item, tokens, Some(name.path))
                 IN [up EXCEPT !.visited = <<o>> \o @]
            ELSE [Ok(path) EXCEPT !.visited = <<o>>]

\* build_path of objs[o], lines 25-89; `visited` lists the objects whose
\* build_path ran
build_path(objs, o, tokens, child_path) ==
    IF ~tokens.isdict THEN [Err("TypeError") EXCEPT !.visited = <<o>>]
    ELSE LET self == objs[o]
             name == object_name(self, tokens.map)
             path == step_path(name.path, child_path)
         IN IF name.status # "ok" THEN [name EXCEPT !.visited = <<o>>]
            ELSE IF self.parent_item # 0
            THEN LET up == build_path(objs, self.parent_item, tokens, Some(path))
                 IN [up EXCEPT !.visited = <<o>> \o @]
            ELSE [Ok(path) EXCEPT !.visited = <<o>>]

----------------------------------------------------------------------------
(* The schema document, as yaml.load returns it: a mapping of root names   *)
(* to lists of mappings {child: data}; data is a mapping (with optional    *)
(* 'naming', 'preserve', 'children'), a list of further mappings, or None. *)
(* A mapping is the sequence of its items, in order.                       *)

Entry(child, data) == [child |-> child, data |-> data]

NoneData ==
    [kind |-> "none", items |-> <<>>, has_children |-> FALSE, children |-> <<>>,
     has_preserve |-> FALSE, preserve |-> FALSE, has_naming |-> FALSE, naming |-> <<>>]
ListData(items) == [NoneData EXCEPT !.kind = "list", !.items = items]
DictData == [NoneData EXCEPT !.kind = "dict"]
WithChildren(data, children) == [data EXCEPT !.has_children = TRUE, !.children = children]
WithPreserve(data, preserve) == [data EXCEPT !.has_preserve = TRUE, !.preserve = preserve]
WithNaming(data, naming) == [data EXCEPT !.has_naming = TRUE, !.naming = naming]

----------------------------------------------------------------------------
(* HydroTemplateTree (template_tree.py) *)

\* __init__: self._template_tree_root = str()
template_tree_root == <<>>

\* '{%s}' % child
default_naming(child) == <<"{">> \o child \o <<"}">>

\* _process_template_tree_item, lines 57-66: the preserve flag of an entry
item_preserve(data) ==
    IF data.kind = "dict" /\ data.has_preserve THEN data.preserve ELSE FALSE

\* item_naming with a 'naming' of the entry taken even when it is preserved
item_naming_override_first(child, data) ==
    IF data.kind = "dict"
    THEN IF data.has_naming THEN data.naming
         ELSE IF item_preserve(data) THEN child
         ELSE default_naming(child)
    ELSE default_naming(child)

\* _process_template_tree_item, lines 57-73: the naming of an entry
item_naming(child, data) ==
    IF data.kind = "dict"
    THEN IF item_preserve(data) THEN child
         ELSE IF data.has_naming THEN data.naming
         ELSE default_naming(child)
    ELSE default_naming(child)

\* _process_template_tree_item, lines 64-75: the children of an entry; only
\* a list is descended into (line 95)
item_children(data) ==
    IF data.kind = "dict"
    THEN IF data.has_children
         THEN [is_list |-> TRUE, items |-> data.children]
         ELSE [is_list |-> FALSE, items |-> <<>>]
    ELSE IF data.kind = "list" THEN [is_list |-> TRUE, items |-> data.items]
    ELSE [is_list |-> FALSE, items |-> <<>>]

Put(f, k, v) == [x \in DOMAIN f \cup {k} |-> IF x = k THEN v ELSE f[x]]

\* register with preserved objects stored like the others
register_always(tree, child, preserve, o) == Put(tree, child, o)

\* lines 90-91: self._template_tree[child] = template_object, unless preserved
register(tree, child, preserve, o) ==
    IF ~preserve THEN Put(tree, child, o) ELSE tree

\* create_object with the parent of the new object left unset
create_object_without_parent(st, child, data, parent_item) ==
    LET preserve == item_preserve(data)
        o == Len(st.objects) + 1
    IN [st EXCEPT
           !.objects = Append(@, HydroTemplateObject(item_naming(child, data),
                                                     preserve, 0)),
           !.tree = register(@, child, preserve, o),
           !.created = Append(@, [child |-> child, data |-> data, pass |-> st.pass])]

\* lines 80-91 for one entry {child: data}: st holds the heap, the index and
\* the creation history
create_object(st, child, data, parent_item) ==
    LET preserve == item_preserve(data)
        o == Len(st.objects) + 1
    IN [st EXCEPT
           !.objects = Append(@, HydroTemplateObject(item_naming(child, data),
                                                     preserve, parent_item)),
           !.tree = register(@, child, preserve, o),
           !.created = Append(@, [child |-> child, data |-> data, pass |-> st.pass])]

RECURSIVE _process_template_tree_item(_, _, _)
RECURSIVE process_child_item(_, _, _)

\* the loop of line 55 over the list `item`
_process_template_tree_item(item, parent_item, st) ==
    IF item = <<>> THEN st
    ELSE _process_template_tree_item(Tail(item), parent_item,
                                     process_child_item(Head(item), parent_item, st))

\* the loop of line 56 over the items of one mapping of the list
process_child_item(child_item, parent_item, st) ==
    IF child_item = <<>> THEN st
    ELSE LET child == Head(child_item).child
             data == Head(child_item).data
             made == create_object(st, child, data, parent_item)
             children == item_children(data)
             done == IF children.is_list
                     THEN _process_template_tree_item(children.items,
                                                      Len(st.objects) + 1, made)
                     ELSE made
         IN process_child_item(Tail(child_item), parent_item, done)

\* _process_template_tree: every root of the schema, with no parent
RECURSIVE _process_template_tree(_, _)
_process_template_tree(roots, st) ==
    IF roots = <<>> THEN st
    ELSE _process_template_tree(Tail(roots),
                                _process_template_tree_item(Head(roots).data, 0, st))

\* tree_build_path with the tokens validated before the key is looked up
tree_build_path_tokens_first(tree, objs, key, tokens) ==
    IF ~tokens.isdict THEN Err("TypeError")
    ELSE IF key \notin DOMAIN tree THEN Err("KeyError")
    ELSE LET built == build_path(objs, tree[key], tokens, NoneArg)
         IN IF built.status = "ok"
            THEN [built EXCEPT !.path = os_path_join(template_tree_root, @)]
            ELSE built

\* source_missing with the check of the source left out
source_missing_never(path) == FALSE

\* _load_template_tree, line 31: if not self._template_path
source_missing(path) == path = "None"

\* HydroTemplateTree.build_path, lines 115-123
tree_build_path(tree, objs, key, tokens) ==
    IF key \notin DOMAIN tree THEN Err("KeyError")
    ELSE LET built == build_path(objs, tree[key], tokens, NoneArg)
         IN IF built.status = "ok"
            THEN [built EXCEPT !.path = os_path_join(template_tree_root, @)]
            ELSE built

----------------------------------------------------------------------------
(* Inputs *)

NotADict == [isdict |-> FALSE, map |-> <<>>]
Dict(map) == [isdict |-> TRUE, map |-> map]

TokenMaps ==
    { <<>>,
      (<<"a">> :> StrVal(<<"x">>)),
      (<<"a">> :> StrVal(<<"x">>)) @@ (<<"b">> :> IntVal(1)),
      (<<"a">> :> StrVal(<<"/", "x">>)) @@ (<<"b">> :> IntVal(1)),
      (<<"a">> :> StrVal(<<"x", "/">>)) @@ (<<"b">> :> IntVal(1)),
      (<<"a">> :> StrVal(<<>>)) @@ (<<"b">> :> IntVal(1)),
      (<<"a">> :> StrVal(<<"x">>)) @@ (<<"b">> :> IntVal(1))
          @@ (<<"a", "1">> :> StrVal(<<"y">>)) }

TokenArgs == {NotADict} \cup {Dict(m) : m \in TokenMaps}

ChildPaths == {NoneArg, Some(<<>>), Some(<<"y">>), Some(<<"/", "y">>)}

\* every string of at most MaxLen characters over these
PatternChars == {"a", "1", "{", "}", ":"}
ShortPatterns == UNION {[1..n -> PatternChars] : n \in 0..MaxLen}

LongPatterns ==
    { <<"{", "a", "}", "_", "{", "b", ":", "0", "3", "}">>,
      <<"{", "a", "1", "}">>,
      <<"{", "{", "a", "}", "}">>,
      <<"{", "a", ":", "{", "b", "}", "}">>,
      <<"/", "a">>,
      <<"a", "/">> }

Patterns == ShortPatterns \cup LongPatterns

ParentObjects ==
    { HydroTemplateObject(<<"{", "s", "}">>, TRUE, 0),
      HydroTemplateObject(<<"{", "a", "}">>, FALSE, 0),
      HydroTemplateObject(<<"{", "b", ":", "0", "3", "}">>, FALSE, 0) }

Pending == [status |-> "pending", path |-> <<>>, visited |-> <<>>]

NoCall ==
    [op |-> "none", key |-> <<>>, obj |-> 0, tokens |-> NotADict,
     child_path |-> NoneArg, result |-> Ok(<<>>)]

----------------------------------------------------------------------------
(* build_path called on an object constructed directly: the object, its    *)
(* parent and the arguments are drawn by InitObject, the call is the step  *)

ObjectBuildPath ==
    /\ call.op = "object.build_path"
    /\ call.result = Pending
    /\ call' = [call EXCEPT !.result =
                    build_path(objects, call.obj, call.tokens, call.child_path)]
    /\ UNCHANGED <<template_path, template_schema, template_tree, objects, created, compiled>>

NoSchema == [loaded |-> FALSE, roots |-> <<>>]
NeverCompiled == [schema |-> <<>>, pass |-> 0]
Direct == [child |-> <<>>, data |-> NoneData, pass |-> 0]

InitObject ==
    /\ template_path = "None"
    /\ template_schema = NoSchema
    /\ template_tree = <<>>
    /\ \E name \in Patterns, preserve \in BOOLEAN :
          \/ objects = <<HydroTemplateObject(name, preserve, 0)>>
          \/ \E parent \in ParentObjects :
                objects = <<parent, HydroTemplateObject(name, preserve, 1)>>
    /\ created = [i \in 1..Len(objects) |-> Direct]
    /\ compiled = NeverCompiled
    /\ \E tokens \in TokenArgs, child_path \in ChildPaths :
          call = [op |-> "object.build_path", key |-> <<>>, obj |-> Len(objects),
                  tokens |-> tokens, child_path |-> child_path, result |-> Pending]

NextObject == ObjectBuildPath

SpecObject == InitObject /\ [][NextObject]_vars


----------------------------------------------------------------------------
(* Schema documents the source file may hold *)

\* a preserved directory s, under it {a}, under it an entry b with a naming
\* of two placeholders, one of them zero padded
SchemaA ==
    << [name |-> <<"r">>, data |->
        << <<Entry(<<"s">>, WithChildren(WithPreserve(DictData, TRUE),
            << <<Entry(<<"a">>, ListData(
                << <<Entry(<<"b">>,
                     WithNaming(DictData,
                        <<"{", "a", "}", "_", "{", "b", ":", "0", "3", "}">>))>> >>))>> >>))>> >>] >>

\* the key a at two levels, a preserved entry that also carries a naming, a
\* mapping of two entries, a key with a digit, entries without data
SchemaB ==
    << [name |-> <<"r">>, data |->
        << <<Entry(<<"a">>, ListData(
                << <<Entry(<<"w">>, WithChildren(
                        WithNaming(WithPreserve(DictData, TRUE), <<"{", "b", "}">>),
                        << <<Entry(<<"a">>, NoneData)>> >>))>> >>)),
             Entry(<<"a", "1">>, NoneData)>> >>] >>

\* two roots; the key a preserved in one and not in the other; a mapping
\* without 'children'; preserve given as false
SchemaC ==
    << [name |-> <<"r">>, data |->
        << <<Entry(<<"a">>, WithChildren(WithPreserve(DictData, TRUE),
                << <<Entry(<<"b">>, WithPreserve(DictData, FALSE))>> >>))>> >>],
       [name |-> <<"q">>, data |->
        << <<Entry(<<"a">>, WithNaming(DictData, <<"{", "b", "}", "{", "a", "}">>))>> >>] >>

Schemas == {SchemaA, SchemaB, SchemaC}

TreeKeys == {<<"a">>, <<"b">>, <<"a", "1">>, <<"s">>, <<"w">>, <<"z">>}

----------------------------------------------------------------------------
(* The tree's operations *)

Outcome(op, result) ==
    [op |-> op, key |-> <<>>, obj |-> 0, tokens |-> NotADict,
     child_path |-> NoneArg, result |-> result]

\* the compile pass over `roots`, from the current heap and index
Compile(roots) ==
    LET st == _process_template_tree(roots,
                  [objects |-> objects, tree |-> template_tree,
                   created |-> created, pass |-> compiled.pass + 1])
    IN /\ objects' = st.objects
       /\ template_tree' = st.tree
       /\ created' = st.created
       /\ compiled' = [schema |-> roots, pass |-> compiled.pass + 1]

\* _load_template_tree(process_template_tree); `content` is what the source
\* file holds when it is read
LoadTemplateTree(content, process_template_tree) ==
    /\ Len(objects) <= MaxObjects
    /\ IF source_missing(template_path)
       THEN /\ call' = Outcome("load", Err("NoSchemaSource"))
            /\ UNCHANGED <<template_schema, template_tree, objects, created, compiled>>
       ELSE /\ template_schema' = [loaded |-> TRUE, roots |-> content]
            /\ IF process_template_tree
               THEN Compile(content)
               ELSE UNCHANGED <<template_tree, objects, created, compiled>>
            /\ call' = Outcome("load", Ok(<<>>))
    /\ UNCHANGED template_path

\* _process_template_tree() called directly; None has no items()
ProcessTemplateTree ==
    /\ Len(objects) <= MaxObjects
    /\ IF ~template_schema.loaded
       THEN /\ call' = Outcome("compile", Err("AttributeError"))
            /\ UNCHANGED <<template_tree, objects, created, compiled>>
       ELSE /\ Compile(template_schema.roots)
            /\ call' = Outcome("compile", Ok(<<>>))
    /\ UNCHANGED <<template_path, template_schema>>

\* HydroTemplateTree.build_path(key, tokens)
TreeBuildPath(key, tokens) ==
    /\ call' = [op |-> "tree.build_path", key |-> key, obj |-> 0, tokens |-> tokens,
                child_path |-> NoneArg,
                result |-> tree_build_path(template_tree, objects, key, tokens)]
    /\ UNCHANGED <<template_path, template_schema, template_tree, objects, created,
                   compiled>>

\* HydroTemplateTree(): no source, nothing loaded
InitWithoutSource ==
    /\ template_path = "None"
    /\ template_schema = NoSchema
    /\ template_tree = <<>>
    /\ objects = <<>>
    /\ created = <<>>
    /\ compiled = NeverCompiled
    /\ call = NoCall

\* HydroTemplateTree(template_path): the constructor loads and compiles
InitWithSource ==
    \E content \in Schemas :
        LET st == _process_template_tree(content,
                      [objects |-> <<>>, tree |-> <<>>, created |-> <<>>, pass |-> 1])
        IN /\ template_path = "schema.yml"
           /\ template_schema = [loaded |-> TRUE, roots |-> content]
           /\ template_tree = st.tree
           /\ objects = st.objects
           /\ created = st.created
           /\ compiled = [schema |-> content, pass |-> 1]
           /\ call = NoCall

Init == InitWithoutSource \/ InitWithSource

Next ==
    \/ \E content \in Schemas, process_template_tree \in BOOLEAN :
          LoadTemplateTree(content, process_template_tree)
    \/ ProcessTemplateTree
    \/ \E key \in TreeKeys, tokens \in TokenArgs : TreeBuildPath(key, tokens)

Spec == Init /\ [][Next]_vars

----------------------------------------------------------------------------
(* Properties of HydroTemplateObject.build_path, checked under SpecObject *)

\* a completed direct call of build_path
Done == call.op = "object.build_path" /\ call.result # Pending
Self == objects[call.obj]
\* the name the called object itself contributes
OwnName == object_name(Self, call.tokens.map)

IsNameChar(c) == IsAz(c) \/ IsDigit(c)

\* the names of the placeholders {name} and {name:format} of a pattern: an
\* identifier between an opening brace that is not the second of a doubled
\* brace and the next } or :
PlaceholderNames(s) ==
    { SubSeq(s, q[1] + 1, q[2] - 1) :
        q \in { r \in (1..Len(s)) \X (1..Len(s)) :
                  /\ r[1] + 1 < r[2]
                  /\ s[r[1]] = "{"
                  /\ (r[1] = 1 \/ s[r[1] - 1] # "{")
                  /\ s[r[2]] \in {"}", ":"}
                  /\ \A k \in (r[1] + 1)..(r[2] - 1) : IsNameChar(s[k])
                  /\ ~IsDigit(s[r[1] + 1]) } }

\* C1: an object that is not preserved, called with a mapping that lacks the
\* name of a placeholder of its pattern, fails with MissingTokens and returns
\* no path.
C1_MissingTokens ==
    (/\ Done
     /\ call.tokens.isdict
     /\ ~Self.preserve
     /\ \E n \in PlaceholderNames(Self.name) : n \notin DOMAIN call.tokens.map)
    => (call.result.status = "MissingTokens" /\ call.result.path = <<>>)

\* C3: build_path called with tokens that are not a mapping fails with
\* TypeError in the called object itself, whatever its flag, parent and
\* child_path: nothing is substituted and no parent is asked.
C3_InvalidArgument ==
    (Done /\ ~call.tokens.isdict)
    => (/\ call.result.status = "TypeError"
        /\ call.result.path = <<>>
        /\ call.result.visited = <<call.obj>>)

C3_Witness ==
    /\ Done
    /\ ~call.tokens.isdict
    /\ Self.preserve
    /\ Self.parent_item # 0
    /\ call.child_path.some
    /\ call.result.status = "TypeError"

\* C6: a preserved object contributes its pattern verbatim for every
\* mapping: without a parent the call succeeds, and returns exactly the
\* pattern when no child_path is given; with a parent its own step never
\* fails and the parent receives the pattern joined with the child_path.
C6_PreservedVerbatim ==
    (Done /\ call.tokens.isdict /\ Self.preserve)
    => LET own == IF Truthy(call.child_path)
                  THEN os_path_join(Self.name, call.child_path.s)
                  ELSE Self.name
       IN IF Self.parent_item = 0
          THEN /\ call.result.status = "ok"
               /\ call.result.path = own
               /\ ~call.child_path.some => call.result.path = Self.name
          ELSE LET up == build_path(objects, Self.parent_item, call.tokens, Some(own))
               IN /\ Len(call.result.visited) = 2
                  /\ call.result.status = up.status
                  /\ call.result.path = up.path

C6_Witness ==
    /\ Done
    /\ call.tokens.isdict
    /\ Self.preserve
    /\ Self.parent_item = 0
    /\ ~call.child_path.some
    /\ \E n \in PlaceholderNames(Self.name) : n \notin DOMAIN call.tokens.map
    /\ call.result.status = "ok"
    /\ call.result.path = Self.name

\* C8: for an object with a parent whose own step succeeds, build_path
\* returns what the parent's build_path returns for the same tokens and the
\* object's step result (its name, joined with the child_path when one is
\* given), or fails with the same error.
C8_Compositional ==
    (Done /\ call.tokens.isdict /\ Self.parent_item # 0 /\ OwnName.status = "ok")
    => LET r == IF Truthy(call.child_path)
                THEN os_path_join(OwnName.path, call.child_path.s)
                ELSE OwnName.path
           up == build_path(objects, Self.parent_item, call.tokens, Some(r))
       IN /\ call.result.status = up.status
          /\ call.result.path = up.path

C8_Witness ==
    /\ Done
    /\ call.tokens.isdict
    /\ Self.parent_item # 0
    /\ ~Self.preserve
    /\ OwnName.status = "ok"
    /\ Truthy(call.child_path)
    /\ call.result.status = "ok"

----------------------------------------------------------------------------
(* Properties of HydroTemplateTree, checked under Spec *)

\* C2: build_path of the tree with a key that is not in the index fails
\* with KeyError whatever the tokens are, and no object's build_path runs.
C2_KeyNotFound ==
    (call.op = "tree.build_path" /\ call.key \notin DOMAIN template_tree)
    => (/\ call.result.status = "KeyError"
        /\ call.result.path = <<>>
        /\ call.result.visited = <<>>)

C2_Witness ==
    /\ call.op = "tree.build_path"
    /\ DOMAIN template_tree # {}
    /\ call.key \notin DOMAIN template_tree
    /\ ~call.tokens.isdict
    /\ call.result.status = "KeyError"

\* C7: a tree constructed without a source never holds a schema or an
\* index entry; each of its loads fails with NoSchemaSource and each of its
\* build_path calls with KeyError.
C7_NoSource ==
    template_path = "None"
    => (/\ ~template_schema.loaded
        /\ DOMAIN template_tree = {}
        /\ objects = <<>>
        /\ call.op = "load" => call.result.status = "NoSchemaSource"
        /\ call.op = "tree.build_path" => call.result.status = "KeyError")

C7_Witness ==
    /\ template_path = "None"
    /\ call.op = "load"
    /\ call.result.status = "NoSchemaSource"
    /\ DOMAIN template_tree = {}

\* the entries of the objects made by the latest compile pass
Latest == {i \in 1..Len(objects) : created[i].pass = compiled.pass}

\* C5 as stated: every object of the compile that is not preserved is the
\* index entry of its schema key, and no index entry is a preserved object.
C5_AsStated ==
    /\ \A i \in Latest :
          ~objects[i].preserve
          => (/\ created[i].child \in DOMAIN template_tree
              /\ template_tree[created[i].child] = i)
    /\ \A key \in DOMAIN template_tree : ~objects[template_tree[key]].preserve

\* C5 amended: every object of the compile that is not preserved has its
\* schema key in the index, and the entry of a key is the object made last
\* among the objects of that key that are not preserved; no index entry is
\* a preserved object.
C5_Registered ==
    /\ \A i \in Latest :
          ~objects[i].preserve
          => (/\ created[i].child \in DOMAIN template_tree
              /\ template_tree[created[i].child] \in Latest
              /\ template_tree[created[i].child] >= i
              /\ created[template_tree[created[i].child]].child = created[i].child
              /\ \A j \in Latest :
                    (j > template_tree[created[i].child] /\ ~objects[j].preserve)
                    => created[j].child # created[i].child)
    /\ \A key \in DOMAIN template_tree : ~objects[template_tree[key]].preserve

C5_Witness ==
    /\ compiled.pass > 0
    /\ \E i \in Latest : objects[i].preserve
    /\ \E i \in Latest, j \in Latest :
          /\ i < j
          /\ ~objects[i].preserve
          /\ ~objects[j].preserve
          /\ created[i].child = created[j].child
          /\ template_tree[created[i].child] = j

\* C10: the flag of the object built for an entry {name: data} is data's
\* 'preserve' when data is a mapping that has one, else false; its pattern
\* is the key when the flag is true, else data's 'naming' when data is a
\* mapping that has one, else the key in braces.
C10_NamingAndPreserve ==
    \A i \in 1..Len(objects) :
        created[i].pass > 0
        => LET child == created[i].child
               data == created[i].data
               flag == data.kind = "dict" /\ data.has_preserve /\ data.preserve
           IN /\ objects[i].preserve = flag
              /\ objects[i].name =
                    IF flag THEN child
                    ELSE IF data.kind = "dict" /\ data.has_naming THEN data.naming
                    ELSE <<"{">> \o child \o <<"}">>

C10_Witness ==
    \E i \in 1..Len(objects) :
        /\ created[i].pass > 0
        /\ created[i].data.has_naming
        /\ created[i].data.preserve
        /\ objects[i].preserve
        /\ objects[i].name = created[i].child

----------------------------------------------------------------------------
(* C4: the path of a key against the schema document *)

RECURSIVE ChainsOfList(_, _)
RECURSIVE ChainsOfMapping(_, _)

\* the entries of a list of mappings, each with its ancestors above it (a
\* chain, root first), in document order
ChainsOfList(list, above) ==
    IF list = <<>> THEN <<>>
    ELSE ChainsOfMapping(Head(list), above) \o ChainsOfList(Tail(list), above)

ChainsOfMapping(mapping, above) ==
    IF mapping = <<>> THEN <<>>
    ELSE LET entry == Head(mapping)
             chain == Append(above, entry)
             below == IF entry.data.kind = "list"
                      THEN ChainsOfList(entry.data.items, chain)
                      ELSE IF entry.data.kind = "dict" /\ entry.data.has_children
                      THEN ChainsOfList(entry.data.children, chain)
                      ELSE <<>>
         IN <<chain>> \o below \o ChainsOfMapping(Tail(mapping), above)

RECURSIVE SchemaChains(_)
SchemaChains(roots) ==
    IF roots = <<>> THEN <<>>
    ELSE ChainsOfList(Head(roots).data, <<>>) \o SchemaChains(Tail(roots))

EntryPreserved(entry) ==
    entry.data.kind = "dict" /\ entry.data.has_preserve /\ entry.data.preserve

\* the chains of the schema that end in an addressable entry of this key
KeyChains(roots, key) ==
    SelectSeq(SchemaChains(roots),
              LAMBDA chain : /\ chain[Len(chain)].child = key
                             /\ ~EntryPreserved(chain[Len(chain)]))

\* the chain of a key: of its last addressable entry in document order
KeyChain(roots, key) == KeyChains(roots, key)[Len(KeyChains(roots, key))]

\* the segment of one schema level for a token mapping
LevelSegment(entry, tokens) ==
    IF EntryPreserved(entry) THEN Ok(entry.child)
    ELSE str_format(IF entry.data.kind = "dict" /\ entry.data.has_naming
                    THEN entry.data.naming
                    ELSE <<"{">> \o entry.child \o <<"}">>,
                    tokens)

\* segments separated by the path separator
RECURSIVE Separated(_)
Separated(segments) ==
    IF Len(segments) = 1 THEN segments[1]
    ELSE segments[1] \o <<Sep>> \o Separated(Tail(segments))

\* a build_path call of the tree for a key of the compiled schema, with a
\* mapping that yields a segment for every level of the key's chain
C4_Case ==
    /\ call.op = "tree.build_path"
    /\ call.tokens.isdict
    /\ compiled.pass > 0
    /\ call.key \in DOMAIN template_tree
    /\ KeyChains(compiled.schema, call.key) # <<>>
    /\ \A k \in 1..Len(KeyChain(compiled.schema, call.key)) :
          LevelSegment(KeyChain(compiled.schema, call.key)[k],
                       call.tokens.map).status = "ok"

C4_Segments ==
    [k \in 1..Len(KeyChain(compiled.schema, call.key)) |->
        LevelSegment(KeyChain(compiled.schema, call.key)[k], call.tokens.map).path]

====
